---- MODULE Spec2Model ----
(***************************************************************************)
(* A model of plot/riemann_surface_sqrt.py: the script that samples the    *)
(* two sheets of the Riemann surface of the complex square root on a polar *)
(* grid and renders them in one 3D scene.                                  *)
(*                                                                         *)
(* The script is straight-line code.  Every statement is one action; pc is *)
(* the line number of the next statement to run.  The module-level names   *)
(* of the script are the variables of the model.                           *)
(*                                                                         *)
(* Numbers.  The script computes in IEEE-754 binary64.  The model computes *)
(* in decimal fixed point: the integer v stands for the real v / Scale.    *)
(* Every operation rounds its exact result to the nearest representable    *)
(* value, ties to even, as binary64 does; the rounding is therefore        *)
(* symmetric in the sign and monotone.  The resolution is absolute         *)
(* (1 / Scale) where binary64's is relative (2^-53).                       *)
(***************************************************************************)
EXTENDS Integers, Sequences, FiniteSets

(***************************************************************************)
(* Bounds of the model.                                                    *)
(***************************************************************************)
\* grid resolutions 2 .. MaxN are explored beside the script's own n
MaxN == 5
\* z-scale factors k/2 for k in -MaxZScale .. MaxZScale are explored
MaxZScale == 2

(***************************************************************************)
(* Fixed-point arithmetic standing for numpy's float64 arithmetic.         *)
(***************************************************************************)
Scale == 10000

Abs(a) == IF a < 0 THEN -a ELSE a

\* a / b for a >= 0, b > 0, rounded to nearest, ties to even
RoundDivNat(a, b) ==
  LET q == a \div b
      rem == a % b
  IN IF 2 * rem > b \/ (2 * rem = b /\ q % 2 = 1) THEN q + 1 ELSE q

\* a / b for b > 0, rounded to nearest, ties to even (sign-symmetric)
RoundDiv(a, b) == IF a >= 0 THEN RoundDivNat(a, b) ELSE -RoundDivNat(-a, b)

\* the float product a * b
Mul(a, b) == RoundDiv(a * b, Scale)

\* the float quotient a / b, b # 0
Div(a, b) ==
  IF (a < 0) = (b < 0) THEN RoundDivNat(Abs(a) * Scale, Abs(b))
  ELSE -RoundDivNat(Abs(a) * Scale, Abs(b))

\* floor of the square root of m >= 0, searched in lo .. hi
RECURSIVE ISqrt(_, _, _)
ISqrt(m, lo, hi) ==
  IF lo = hi THEN lo
  ELSE LET mid == (lo + hi + 1) \div 2
       IN IF mid * mid <= m THEN ISqrt(m, mid, hi) ELSE ISqrt(m, lo, mid - 1)

\* np.sqrt: the square root of a >= 0, correctly rounded
Sqrt(a) ==
  LET m == a * Scale
      s == ISqrt(m, 0, 4 * Scale)
  IN IF m - s * s > s THEN s + 1 ELSE s

\* np.pi
Pi == 31416

HalfPi == Pi \div 2

\* the quadrant of x: x = Quadrant(x) * pi/2 + Reduced(x), |Reduced(x)| <= pi/4
Quadrant(x) == RoundDiv(x, HalfPi)

Reduced(x) == x - Quadrant(x) * HalfPi

\* sin y for |y| <= pi/4: y - y^3/3! + y^5/5! - y^7/7!, by Horner's rule
SinPoly(y) ==
  LET y2 == Mul(y, y)
      t3 == Scale - RoundDiv(y2, 42)
      t2 == Scale - Mul(RoundDiv(y2, 20), t3)
      t1 == Scale - Mul(RoundDiv(y2, 6), t2)
  IN Mul(y, t1)

\* cos y for |y| <= pi/4: 1 - y^2/2! + y^4/4! - y^6/6! + y^8/8!
CosPoly(y) ==
  LET y2 == Mul(y, y)
      t4 == Scale - RoundDiv(y2, 56)
      t3 == Scale - Mul(RoundDiv(y2, 30), t4)
      t2 == Scale - Mul(RoundDiv(y2, 12), t3)
  IN Scale - Mul(RoundDiv(y2, 2), t2)

\* np.sin
Sin(x) ==
  LET k == Quadrant(x) % 4
      y == Reduced(x)
  IN CASE k = 0 -> SinPoly(y)
       [] k = 1 -> CosPoly(y)
       [] k = 2 -> -SinPoly(y)
       [] OTHER -> -CosPoly(y)

\* np.cos
Cos(x) ==
  LET k == Quadrant(x) % 4
      y == Reduced(x)
  IN CASE k = 0 -> CosPoly(y)
       [] k = 1 -> -SinPoly(y)
       [] k = 2 -> -CosPoly(y)
       [] OTHER -> SinPoly(y)

(***************************************************************************)
(* numpy's array functions.  A 1-D array of length m is a function on      *)
(* 0 .. m-1; a 2-D array A is a function of the row index, A[j][i].        *)
(***************************************************************************)
Idx(m) == 0 .. (m - 1)

\* the array that holds nothing yet
Unset == <<>>

\* np.linspace(start, stop, num), num >= 2: arange(num) * step + start with
\* step = (stop - start) / (num - 1), and the last sample set to stop
Linspace(start, stop, num) ==
  LET step == RoundDiv(stop - start, num - 1)
  IN [i \in Idx(num) |-> IF i = num - 1 THEN stop ELSE i * step + start]

\* np.meshgrid(x, y)[0] with the default indexing 'xy': x repeated along the rows
MeshgridFirst(x, y, nx, ny) == [j \in Idx(ny) |-> [i \in Idx(nx) |-> x[i]]]

\* np.meshgrid(x, y)[1]: y repeated along the columns
MeshgridSecond(x, y, nx, ny) == [j \in Idx(ny) |-> [i \in Idx(nx) |-> y[j]]]

Max(a, b) == IF a >= b THEN a ELSE b

Min(a, b) == IF a <= b THEN a ELSE b

\* the largest of f[lo], ..., f[hi], by halving the range
RECURSIVE MaxOver(_, _, _)
MaxOver(f, lo, hi) ==
  IF lo = hi THEN f[lo]
  ELSE LET mid == (lo + hi) \div 2
           left == MaxOver(f, lo, mid)
           right == MaxOver(f, mid + 1, hi)
       IN Max(left, right)

\* the smallest of f[lo], ..., f[hi]
RECURSIVE MinOver(_, _, _)
MinOver(f, lo, hi) ==
  IF lo = hi THEN f[lo]
  ELSE LET mid == (lo + hi) \div 2
           left == MinOver(f, lo, mid)
           right == MinOver(f, mid + 1, hi)
       IN Min(left, right)

\* np.max of a 2-D array with rows rows and cols columns
ArrayMax(A, rows, cols) ==
  MaxOver([j \in Idx(rows) |-> MaxOver(A[j], 0, cols - 1)], 0, rows - 1)

\* np.min of a 2-D array
ArrayMin(A, rows, cols) ==
  MinOver([j \in Idx(rows) |-> MinOver(A[j], 0, cols - 1)], 0, rows - 1)

\* np.ptp: the peak-to-peak span, maximum minus minimum, of a 2-D array
Ptp(A, rows, cols) == ArrayMax(A, rows, cols) - ArrayMin(A, rows, cols)

(***************************************************************************)
(* The script's constants.                                                 *)
(***************************************************************************)
\* n = 100
NScript == 100
\* zscale = 1
ZScaleScript == 1
\* np.linspace(0.01, 1, n): r_min = 0.01 and r_max = 1
RMin == Scale \div 100

RMax == Scale

\* np.linspace(0, 2 * np.pi, n)
ThetaMin == 0

ThetaMax == 2 * Pi

\* matplotlib's colormaps hold 256 colours
LutSize == 256

\* cm.hsv(x) for x in [0, 1]: the index of the colour in the lookup table,
\* int(x * N) with x = 1 mapped to the last entry N - 1
Hsv(x) == IF x >= Scale THEN LutSize - 1 ELSE (x * LutSize) \div Scale

\* the argument of cm.hsv for the first sheet: Theta / (np.pi * 4)
Hue1(t) == Div(t, Pi * 4)

\* Hue2 with the half-cycle offset left out
Hue2NoOffset(t) == Div(t, Pi * 4)

\* the argument of cm.hsv for the second sheet: 0.5 + Theta / (np.pi * 4)
Hue2(t) == Scale \div 2 + Div(t, Pi * 4)

\* Sheet1 with the two factors added where the script multiplies them
Sheet1Sum(rr, t, zs) == Mul(Sqrt(rr) + Sin(RoundDiv(t, 2)), zs)

\* Sheet1 with the full angle where the script takes the half angle
Sheet1FullAngle(rr, t, zs) == Mul(Mul(Sqrt(rr), Sin(t)), zs)

\* the first sheet: np.sqrt(R) * np.sin(Theta / 2) * zscale
Sheet1(rr, t, zs) == Mul(Mul(Sqrt(rr), Sin(RoundDiv(t, 2))), zs)

\* Sheet2 with the leading minus sign left out
Sheet2NoMinus(rr, t, zs) == Mul(Mul(Sqrt(rr), Sin(RoundDiv(t, 2))), zs)

\* the second sheet: -np.sqrt(R) * np.sin(Theta / 2) * zscale
Sheet2(rr, t, zs) == Mul(Mul(-Sqrt(rr), Sin(RoundDiv(t, 2))), zs)

\* R * np.cos(Theta)
PolarX(rr, t) == Mul(rr, Cos(t))

\* PolarY with the cosine where the script takes the sine
PolarYCos(rr, t) == Mul(rr, Cos(t))

\* R * np.sin(Theta)
PolarY(rr, t) == Mul(rr, Sin(t))

\* one entry of the array cm.hsv returns: the argument and the colour found
Colour(x) == [x |-> x, lut |-> Hsv(x)]

\* a Python string as the list of labels it is iterated into
Labels(s) == IF s = "" THEN <<>> ELSE <<s>>

(***************************************************************************)
(* State.                                                                  *)
(***************************************************************************)
VARIABLES
  pc,          \* line of the next statement; 39 once plt.show() has returned
  n,           \* grid resolution
  zscale,      \* z-scale factor
  theta, r,    \* the 1-D sample arrays
  R, Theta,    \* the mesh
  X, Y,        \* Cartesian coordinates
  Z1, Z2,      \* heights of the two sheets
  C1, C2,      \* per-point colours: [x |-> colormap argument, lut |-> colour index]
  fig,         \* the figure: "none" or its figsize
  ax,          \* the 3D axes: "none" or "3d"
  box_aspect,  \* the axes' box aspect
  layers,      \* what was plotted on the axes, in order
  ticklabels,  \* the tick labels of the x, y and z axes
  shown        \* plt.show() was called

vars == <<pc, n, zscale, theta, r, R, Theta, X, Y, Z1, Z2, C1, C2,
          fig, ax, box_aspect, layers, ticklabels, shown>>

grid == <<theta, r, R, Theta>>

data == <<X, Y, Z1, Z2, C1, C2>>

scene == <<fig, ax, box_aspect, layers, ticklabels>>

\* the resolutions and z-scales explored: the script's own, and small ones
Inputs ==
  {<<NScript, ZScaleScript * Scale>>}
    \cup {<<m, RoundDiv(k * Scale, 2)>> : m \in 2 .. MaxN, k \in -MaxZScale .. MaxZScale}

\* Axes3D's default box aspect, 4 : 4 : 3
DefaultBoxAspect == <<4, 4, 3>>

\* the tick labels an axis generates itself
AutoLabels == <<"auto">>

Init ==
  /\ pc = 10
  /\ \E inp \in Inputs : n = inp[1] /\ zscale = inp[2]
  /\ theta = Unset /\ r = Unset /\ R = Unset /\ Theta = Unset
  /\ X = Unset /\ Y = Unset /\ Z1 = Unset /\ Z2 = Unset
  /\ C1 = Unset /\ C2 = Unset
  /\ fig = "none" /\ ax = "none"
  /\ box_aspect = DefaultBoxAspect
  /\ layers = <<>>
  /\ ticklabels = [x |-> AutoLabels, y |-> AutoLabels, z |-> AutoLabels]
  /\ shown = FALSE

(***************************************************************************)
(* The statements of the script, one action each.                          *)
(***************************************************************************)
\* line 10: theta = np.linspace(0, 2 * np.pi, n)
MakeTheta ==
  /\ pc = 10
  /\ theta' = Linspace(ThetaMin, ThetaMax, n)
  /\ pc' = 11
  /\ UNCHANGED <<n, zscale, r, R, Theta, data, scene, shown>>

\* MakeR with the radius sampled from 0
MakeRFromZero ==
  /\ pc = 11
  /\ r' = Linspace(0, RMax, n)
  /\ pc' = 12
  /\ UNCHANGED <<n, zscale, theta, R, Theta, data, scene, shown>>

\* line 11: r = np.linspace(0.01, 1, n)
MakeR ==
  /\ pc = 11
  /\ r' = Linspace(RMin, RMax, n)
  /\ pc' = 12
  /\ UNCHANGED <<n, zscale, theta, R, Theta, data, scene, shown>>

\* MakeMesh with the arguments of np.meshgrid exchanged
MakeMeshSwapped ==
  /\ pc = 12
  /\ R' = MeshgridFirst(theta, r, n, n)
  /\ Theta' = MeshgridSecond(theta, r, n, n)
  /\ pc' = 16
  /\ UNCHANGED <<n, zscale, theta, r, data, scene, shown>>

\* line 12: R, Theta = np.meshgrid(r, theta)
MakeMesh ==
  /\ pc = 12
  /\ R' = MeshgridFirst(r, theta, n, n)
  /\ Theta' = MeshgridSecond(r, theta, n, n)
  /\ pc' = 16
  /\ UNCHANGED <<n, zscale, theta, r, data, scene, shown>>

\* line 16: X = R * np.cos(Theta)
MakeX ==
  /\ pc = 16
  /\ X' = [j \in DOMAIN R |-> [i \in DOMAIN R[j] |-> PolarX(R[j][i], Theta[j][i])]]
  /\ pc' = 17
  /\ UNCHANGED <<n, zscale, grid, Y, Z1, Z2, C1, C2, scene, shown>>

\* line 17: Y = R * np.sin(Theta)
MakeY ==
  /\ pc = 17
  /\ Y' = [j \in DOMAIN R |-> [i \in DOMAIN R[j] |-> PolarY(R[j][i], Theta[j][i])]]
  /\ pc' = 18
  /\ UNCHANGED <<n, zscale, grid, X, Z1, Z2, C1, C2, scene, shown>>

\* line 18: Z1 = np.sqrt(R) * np.sin(Theta / 2) * zscale
MakeZ1 ==
  /\ pc = 18
  /\ Z1' = [j \in DOMAIN R |-> [i \in DOMAIN R[j] |-> Sheet1(R[j][i], Theta[j][i], zscale)]]
  /\ pc' = 19
  /\ UNCHANGED <<n, zscale, grid, X, Y, Z2, C1, C2, scene, shown>>

\* line 19: Z2 = -np.sqrt(R) * np.sin(Theta / 2) * zscale
MakeZ2 ==
  /\ pc = 19
  /\ Z2' = [j \in DOMAIN R |-> [i \in DOMAIN R[j] |-> Sheet2(R[j][i], Theta[j][i], zscale)]]
  /\ pc' = 20
  /\ UNCHANGED <<n, zscale, grid, X, Y, Z1, C1, C2, scene, shown>>

\* line 20: C1 = cm.hsv(Theta / (np.pi*4))
MakeC1 ==
  /\ pc = 20
  /\ C1' = [j \in DOMAIN Theta |-> [i \in DOMAIN Theta[j] |-> Colour(Hue1(Theta[j][i]))]]
  /\ pc' = 21
  /\ UNCHANGED <<n, zscale, grid, X, Y, Z1, Z2, C2, scene, shown>>

\* line 21: C2 = cm.hsv(0.5 + Theta / (np.pi*4))
MakeC2 ==
  /\ pc = 21
  /\ C2' = [j \in DOMAIN Theta |-> [i \in DOMAIN Theta[j] |-> Colour(Hue2(Theta[j][i]))]]
  /\ pc' = 24
  /\ UNCHANGED <<n, zscale, grid, X, Y, Z1, Z2, C1, scene, shown>>

\* line 24: fig = plt.figure(figsize=(10, 7))
MakeFigure ==
  /\ pc = 24
  /\ fig' = <<10, 7>>
  /\ pc' = 25
  /\ UNCHANGED <<n, zscale, grid, data, ax, box_aspect, layers, ticklabels, shown>>

\* line 25: ax = fig.add_subplot(111, projection='3d')
AddSubplot ==
  /\ pc = 25
  /\ ax' = "3d"
  /\ pc' = 26
  /\ UNCHANGED <<n, zscale, grid, data, fig, box_aspect, layers, ticklabels, shown>>

\* the argument of ax.set_box_aspect: (np.ptp(X), np.ptp(X), np.ptp(Z1))
BoxAspectArg == <<Ptp(X, n, n), Ptp(X, n, n), Ptp(Z1, n, n)>>

\* line 26: ax.set_box_aspect((np.ptp(X), np.ptp(X), np.ptp(Z1)))
SetBoxAspect ==
  /\ pc = 26
  /\ box_aspect' = BoxAspectArg
  /\ pc' = 29
  /\ UNCHANGED <<n, zscale, grid, data, fig, ax, layers, ticklabels, shown>>

\* ax.plot_surface(X, Y, Z, rstride=5, cstride=15, facecolors=C)
Surface(Z, C) ==
  [kind |-> "surface", x |-> "X", y |-> "Y", z |-> Z, rstride |-> 5, cstride |-> 15,
   colour |-> C]

\* ax.plot_wireframe(X, Y, Z, rstride=5, cstride=15, color='black', linewidths=1)
Wireframe(Z) ==
  [kind |-> "wireframe", x |-> "X", y |-> "Y", z |-> Z, rstride |-> 5, cstride |-> 15,
   colour |-> "black"]

\* one plotting call: the layer is appended to the axes
Plot(line, next, layer) ==
  /\ pc = line
  /\ layers' = Append(layers, layer)
  /\ pc' = next
  /\ UNCHANGED <<n, zscale, grid, data, fig, ax, box_aspect, ticklabels, shown>>

\* line 29: ax.plot_surface(X, Y, Z1, rstride=5, cstride=15, facecolors=C1)
PlotSurface1 == Plot(29, 30, Surface("Z1", "C1"))

\* line 30: ax.plot_surface(X, Y, Z2, rstride=5, cstride=15, facecolors=C2)
PlotSurface2 == Plot(30, 31, Surface("Z2", "C2"))

\* line 31: ax.plot_wireframe(X, Y, Z1, rstride=5, cstride=15, color='black', linewidths=1)
PlotWireframe1 == Plot(31, 32, Wireframe("Z1"))

\* PlotWireframe2 drawing the first sheet again
PlotWireframe2Again == Plot(32, 34, Wireframe("Z1"))

\* line 32: ax.plot_wireframe(X, Y, Z2, rstride=5, cstride=15, color='black', linewidths=1)
PlotWireframe2 == Plot(32, 34, Wireframe("Z2"))

\* one ax.set_?ticklabels(s) call
SetTickLabels(line, next, axis, s) ==
  /\ pc = line
  /\ ticklabels' = [ticklabels EXCEPT ![axis] = Labels(s)]
  /\ pc' = next
  /\ UNCHANGED <<n, zscale, grid, data, fig, ax, box_aspect, layers, shown>>

\* line 34: ax.set_xticklabels("")
SetXTickLabels == SetTickLabels(34, 35, "x", "")

\* line 35: ax.set_yticklabels("")
SetYTickLabels == SetTickLabels(35, 36, "y", "")

\* line 36: ax.set_zticklabels("")
SetZTickLabels == SetTickLabels(36, 38, "z", "")

\* Show moved in front of the last tick-label call
ShowEarly ==
  /\ pc = 36
  /\ ~shown
  /\ shown' = TRUE
  /\ UNCHANGED <<pc, n, zscale, grid, data, scene>>

\* line 38: plt.show() is called; it blocks while the window is open
Show ==
  /\ pc = 38
  /\ ~shown
  /\ shown' = TRUE
  /\ UNCHANGED <<pc, n, zscale, grid, data, scene>>

\* line 38: the window is closed and plt.show() returns; the script ends
ShowReturns ==
  /\ pc = 38
  /\ shown
  /\ pc' = 39
  /\ UNCHANGED <<n, zscale, grid, data, scene, shown>>

Next ==
  \/ MakeTheta
  \/ MakeR
  \/ MakeMesh
  \/ MakeX
  \/ MakeY
  \/ MakeZ1
  \/ MakeZ2
  \/ MakeC1
  \/ MakeC2
  \/ MakeFigure
  \/ AddSubplot
  \/ SetBoxAspect
  \/ PlotSurface1
  \/ PlotSurface2
  \/ PlotWireframe1
  \/ PlotWireframe2
  \/ SetXTickLabels
  \/ SetYTickLabels
  \/ SetZTickLabels
  \/ Show
  \/ ShowReturns

Spec == Init /\ [][Next]_vars

(***************************************************************************)
(* Properties of the script.                                               *)
(***************************************************************************)
Rows == Idx(n)

Cols == Idx(n)

\* the statement at a line has run
Ran(line) == pc > line

\* C1: at every grid point the second sheet's height is the exact negation
\* of the first sheet's, Z2[j][i] = -Z1[j][i], whatever the z-scale factor.
SheetsMirror ==
  Ran(19) => \A j \in Rows, i \in Cols : Z2[j][i] = -Z1[j][i]

\* both sheets are computed, the z-scale is negative, and some height was
\* rounded to a nonzero value
SheetsMirrorWitness ==
  /\ Ran(19)
  /\ zscale < 0
  /\ \E j \in Rows, i \in Cols :
       /\ Z1[j][i] < 0
       /\ (Sqrt(R[j][i]) * Sin(RoundDiv(Theta[j][i], 2))) % Scale # 0

\* the layers of one kind that draw the array called z
LayersOf(kind, z) == {k \in DOMAIN layers : layers[k].kind = kind /\ layers[k].z = z}

\* C2: when the display call is reached the scene holds exactly 4 layers,
\* exactly 2 filled surfaces (one of Z1, one of Z2) and exactly 2 wireframes
\* (one of Z1, one of Z2), and the tick labels of the x, y and z axes are
\* empty.
SceneAtShow ==
  pc = 38 =>
    /\ Len(layers) = 4
    /\ \A kind \in {"surface", "wireframe"} :
         /\ Cardinality({k \in DOMAIN layers : layers[k].kind = kind}) = 2
         /\ \A z \in {"Z1", "Z2"} : Cardinality(LayersOf(kind, z)) = 1
    /\ \A axis \in {"x", "y", "z"} : ticklabels[axis] = <<>>

\* plt.show() has been called
SceneAtShowWitness == pc = 38 /\ shown /\ Len(layers) = 4

Half == Scale \div 2

\* C3 as stated: for every sampled theta the hue passed to the colormap for
\* sheet 2 is (the hue passed for sheet 1 + 0.5) modulo 1, sheet 1's hue
\* being theta / (4 pi).
HueOffsetModuloOne ==
  Ran(21) =>
    \A j \in Rows, i \in Cols :
      /\ C1[j][i].x = Div(Theta[j][i], 4 * Pi)
      /\ C2[j][i].x = (C1[j][i].x + Half) % Scale

\* C3 as amended: the hue passed for sheet 2 is the hue passed for sheet 1
\* plus 0.5, not reduced modulo 1; it is (hue 1 + 0.5) modulo 1 at every
\* sampled theta but the last, theta = 2 pi, where 1 is passed and not 0.
HueOffsetUnwrapped ==
  Ran(21) =>
    \A j \in Rows, i \in Cols :
      /\ C1[j][i].x = Div(Theta[j][i], 4 * Pi)
      /\ C2[j][i].x = C1[j][i].x + Half
      /\ Theta[j][i] # ThetaMax => C2[j][i].x = (C1[j][i].x + Half) % Scale
      /\ Theta[j][i] = ThetaMax => C2[j][i].x = Scale

\* the colours are computed; on the last row the hue passed for sheet 2 is 1
HueOffsetWitness ==
  /\ Ran(21)
  /\ \E j \in Rows, i \in Cols : Theta[j][i] = ThetaMax /\ C2[j][i].x = Scale
  /\ \E j \in Rows, i \in Cols : C1[j][i].x > 0 /\ C2[j][i].x < Scale

\* a 1-D array of m samples, strictly increasing from first to last
Samples(a, m, first, last) ==
  /\ DOMAIN a = Idx(m)
  /\ a[0] = first
  /\ a[m - 1] = last
  /\ \A i \in Idx(m - 1) : a[i] < a[i + 1]

\* C4: the radius array holds exactly n values, strictly increasing from
\* r_min = 0.01 to r_max = 1, none of them 0; the angle array holds exactly
\* n values, strictly increasing from 0 to 2 pi.
SampleArrays ==
  Ran(11) =>
    /\ Samples(r, n, RMin, RMax)
    /\ RMin * 100 = Scale
    /\ \A i \in Idx(n) : r[i] # 0
    /\ Samples(theta, n, 0, 2 * Pi)

\* both arrays are built and have inner samples
SampleArraysWitness ==
  /\ Ran(11)
  /\ n > 2
  /\ r[0] < r[1] /\ r[1] < r[n - 1]
  /\ theta[0] < theta[1] /\ theta[1] < theta[n - 1]

\* C5: at every grid point X^2 + Y^2 = R^2 within the tolerance of the
\* arithmetic: the point (X, Y) lies within 3 units of the last place of the
\* circle of radius R.
PolarMap ==
  Ran(17) =>
    \A j \in Rows, i \in Cols :
      LET tol == 3
          d == X[j][i] * X[j][i] + Y[j][i] * Y[j][i]
          lo == R[j][i] - tol
          hi == R[j][i] + tol
      IN lo * lo <= d /\ d <= hi * hi

\* X and Y are computed, and at some grid point neither vanishes
PolarMapWitness ==
  /\ Ran(17)
  /\ \E j \in Rows, i \in Cols : X[j][i] < 0 /\ Y[j][i] > 0 /\ R[j][i] = RMax

\* C6: at the smallest sampled radius r_min = 0.01, for every sampled theta,
\* |Z1| <= sqrt(r_min) * zscale.  (zscale is 1 in the script; the bound is
\* stated for the z-scales that are not negative.)
InnerRimBound ==
  (Ran(18) /\ zscale >= 0) =>
    \A j \in Rows, i \in Cols :
      R[j][i] = RMin => Abs(Z1[j][i]) <= Mul(Sqrt(RMin), zscale)

\* Z1 is computed with a positive z-scale and reaches the bound at r_min
InnerRimBoundWitness ==
  /\ Ran(18)
  /\ zscale > 0
  /\ \E j \in Rows : R[j][0] = RMin /\ Z1[j][0] = Mul(Sqrt(RMin), zscale)
  /\ \E j \in Rows : R[j][0] = RMin /\ Z1[j][0] > 0 /\ Z1[j][0] < Mul(Sqrt(RMin), zscale)

\* the grid is constructed
GridBuilt == theta # Unset /\ r # Unset /\ R # Unset /\ Theta # Unset

\* the coordinates and colours are evaluated
DataBuilt ==
  /\ X # Unset /\ Y # Unset /\ Z1 # Unset /\ Z2 # Unset
  /\ C1 # Unset /\ C2 # Unset

\* nothing is rendered yet
SceneUntouched ==
  /\ fig = "none" /\ ax = "none"
  /\ box_aspect = DefaultBoxAspect
  /\ layers = <<>>
  /\ \A axis \in {"x", "y", "z"} : ticklabels[axis] = AutoLabels

\* every scene-building step has run
SceneBuilt ==
  /\ fig # "none" /\ ax # "none"
  /\ box_aspect # DefaultBoxAspect
  /\ Len(layers) = 4
  /\ \A axis \in {"x", "y", "z"} : ticklabels[axis] = <<>>

\* the phases of the pipeline follow one another
PipelineOrder ==
  /\ X # Unset => GridBuilt
  /\ fig # "none" => GridBuilt /\ DataBuilt
  /\ ~DataBuilt => SceneUntouched
  /\ shown => GridBuilt /\ DataBuilt /\ SceneBuilt

\* once the display call is made, the only step left is its return
ShowIsLast ==
  shown => /\ UNCHANGED <<grid, data, scene, shown>>
           /\ pc = 38 /\ pc' = 39

\* C7: the script is one linear pipeline, grid construction, then
\* coordinate/colour evaluation, then rendering, then display: the display
\* call is the last step, every scene-building step comes before it, and
\* nothing modifies the scene after it is made.
LinearPipeline == []PipelineOrder /\ [][ShowIsLast]_vars

\* the display call was made and has returned
LinearPipelineWitness == shown /\ pc = 39 /\ SceneBuilt

\* the pairs (radius, angle) of the mesh
MeshPairs == {<<R[j][i], Theta[j][i]>> : j \in Rows, i \in Cols}

\* C8: the mesh has exactly n * n points and holds every pair (r_i, theta_j)
\* of a sampled radius and a sampled angle exactly once; R and Theta have
\* the same shape, and R[j][i] = r_i, Theta[j][i] = theta_j.
FullMesh ==
  Ran(12) =>
    /\ DOMAIN R = Idx(n) /\ DOMAIN Theta = Idx(n)
    /\ \A j \in Rows : DOMAIN R[j] = Idx(n) /\ DOMAIN Theta[j] = Idx(n)
    /\ Cardinality(Rows \X Cols) = n * n
    /\ \A j \in Rows, i \in Cols : R[j][i] = r[i] /\ Theta[j][i] = theta[j]
    /\ MeshPairs = {<<r[a], theta[b]>> : a \in Idx(n), b \in Idx(n)}
    /\ Cardinality(MeshPairs) = n * n

\* the mesh is built and is not symmetric
FullMeshWitness ==
  /\ Ran(12)
  /\ n > 2
  /\ R[0][1] = r[1] /\ R[1][0] = r[0] /\ r[0] # r[1]
  /\ Theta[0][1] = theta[0] /\ Theta[1][0] = theta[1] /\ theta[0] # theta[1]

\* the peak-to-peak span of the heights of both sheets
PtpZ == Max(ArrayMax(Z1, n, n), ArrayMax(Z2, n, n)) - Min(ArrayMin(Z1, n, n), ArrayMin(Z2, n, n))

\* the triples a and b are proportional
Proportional(a, b) ==
  /\ a[1] * b[2] = a[2] * b[1]
  /\ a[1] * b[3] = a[3] * b[1]
  /\ a[2] * b[3] = a[3] * b[2]

\* C9: the box aspect is fixed from the spans of the plotted data, the box
\* length of each axis proportional to the peak-to-peak span of the data
\* plotted on it: x from X, y from Y, z from the heights of the sheets.
BoxAspectFromData ==
  Ran(26) => Proportional(box_aspect, <<Ptp(X, n, n), Ptp(Y, n, n), PtpZ>>)

\* C10: with a positive z-scale the sheets never cross: Z1 >= 0 >= Z2 at
\* every grid point; the heights are equal only on the rows theta = 0 and
\* theta = 2 pi, and the row theta = 0 lies at height 0; at every other
\* sampled theta and every sampled radius Z1 > 0 > Z2.
SheetsNeverCross ==
  (Ran(19) /\ zscale > 0) =>
    \A j \in Rows, i \in Cols :
      /\ Z1[j][i] >= 0 /\ 0 >= Z2[j][i]
      /\ Z1[j][i] = Z2[j][i] => Theta[j][i] \in {ThetaMin, ThetaMax}
      /\ Theta[j][i] = ThetaMin => Z1[j][i] = 0 /\ Z2[j][i] = 0
      /\ Theta[j][i] \notin {ThetaMin, ThetaMax} => Z1[j][i] > 0 /\ 0 > Z2[j][i]

\* both sheets are computed with a positive z-scale, and the grid has rows
\* on both sides of theta = pi
SheetsNeverCrossWitness ==
  /\ Ran(19)
  /\ zscale > 0
  /\ \E j \in Rows : Theta[j][0] > 0 /\ Theta[j][0] < Pi /\ Z1[j][0] > 0
  /\ \E j \in Rows : Theta[j][0] > Pi /\ Theta[j][0] < ThetaMax /\ Z1[j][0] > 0

====
